---------------------------- MODULE Spec2Model ----------------------------
(***************************************************************************)
(* Model of src/client/client.py: the MCP chat client.  main connects to   *)
(* a tool server, chat_loop reads queries, process_query sends the query   *)
(* and the tool catalog to the model API, decodes the streamed response    *)
(* into text and tool calls, dispatches the tool calls and sends the       *)
(* results back in one follow-up request.                                  *)
(*                                                                         *)
(* Strings the program inspects character by character (input lines, the   *)
(* partial-JSON buffer) are sequences of one-character strings.            *)
(***************************************************************************)
EXTENDS Integers, Sequences, FiniteSets, TLC

(***************************************************************************)
(* Bounds of the model.                                                    *)
(***************************************************************************)
\* events delivered by the first response stream of a query
MaxStream == 6
\* events delivered by the follow-up response stream of a query
MaxStream2 == 1

(***************************************************************************)
(* Helpers on sequences.                                                   *)
(***************************************************************************)
RECURSIVE Flatten(_)
\* "".join(parts): the parts one after the other, nothing in between
Flatten(parts) ==
    IF parts = <<>> THEN <<>> ELSE Head(parts) \o Flatten(Tail(parts))

(***************************************************************************)
(* json.loads, on the alphabet the model's fragments are written in:       *)
(* braces, the double quote, the letter k, the colon, the digit 1 and the  *)
(* space.  A JSON value is <<"num", n>>, <<"str", chars>> or               *)
(* <<"obj", members>>, members a sequence of <<key, value>>.               *)
(* A parse result is [ok, val, next]: next is the index after the value.   *)
(***************************************************************************)
JsonChars == {"{", "}", "\"", "k", ":", "1", " "}

ParseFail == [ok |-> FALSE, val |-> <<"none">>, next |-> 0]

RECURSIVE SkipWs(_, _)
\* the first index >= i of s that holds no whitespace
SkipWs(s, i) ==
    IF i <= Len(s) /\ s[i] = " " THEN SkipWs(s, i + 1) ELSE i

RECURSIVE ScanDigits(_, _, _)
\* the digits of s from index i on: [val, next]
ScanDigits(s, i, acc) ==
    IF i <= Len(s) /\ s[i] = "1"
    THEN ScanDigits(s, i + 1, 10 * acc + 1)
    ELSE [val |-> acc, next |-> i]

RECURSIVE ScanString(_, _)
\* the index of the closing quote of a string whose text starts at index i,
\* 0 when the string is not terminated
ScanString(s, i) ==
    IF i > Len(s) THEN 0
    ELSE IF s[i] = "\"" THEN i
    ELSE ScanString(s, i + 1)

\* a string literal at index i (s[i] is the opening quote)
ParseString(s, i) ==
    LET close == ScanString(s, i + 1) IN
    IF close = 0 THEN ParseFail
    ELSE [ok |-> TRUE, val |-> <<"str", SubSeq(s, i + 1, close - 1)>>,
          next |-> close + 1]

RECURSIVE ParseValue(_, _)
\* a JSON value at index i of s (leading whitespace already skipped)
ParseValue(s, i) ==
    IF i > Len(s) THEN ParseFail
    ELSE IF s[i] = "1" THEN
        LET d == ScanDigits(s, i, 0) IN
        [ok |-> TRUE, val |-> <<"num", d.val>>, next |-> d.next]
    ELSE IF s[i] = "\"" THEN ParseString(s, i)
    ELSE IF s[i] = "{" THEN
        LET j == SkipWs(s, i + 1) IN
        IF j > Len(s) THEN ParseFail
        ELSE IF s[j] = "}" THEN
            [ok |-> TRUE, val |-> <<"obj", <<>>>>, next |-> j + 1]
        ELSE IF s[j] # "\"" THEN ParseFail
        ELSE
            LET key == ParseString(s, j) IN
            IF ~key.ok THEN ParseFail
            ELSE
                LET c == SkipWs(s, key.next) IN
                IF c > Len(s) \/ s[c] # ":" THEN ParseFail
                ELSE
                    LET v == ParseValue(s, SkipWs(s, c + 1)) IN
                    IF ~v.ok THEN ParseFail
                    ELSE
                        LET e == SkipWs(s, v.next) IN
                        \* the alphabet has no comma: one member at most
                        IF e > Len(s) \/ s[e] # "}" THEN ParseFail
                        ELSE [ok |-> TRUE,
                              val |-> <<"obj", << <<key.val[2], v.val>> >> >>,
                              next |-> e + 1]
    ELSE ParseFail

\* json.loads(s): the value of the whole text, or JSONDecodeError (ok = FALSE)
JsonLoads(s) ==
    LET v == ParseValue(s, SkipWs(s, 1)) IN
    IF v.ok /\ SkipWs(s, v.next) = Len(s) + 1 THEN v ELSE ParseFail


(***************************************************************************)
(* The environment's alphabets.                                            *)
(***************************************************************************)
\* the partial-JSON fragments a stream may deliver:  {"k":   1}   and  " 1"
FragOpen == <<"{", "\"", "k", "\"", ":">>
FragClose == <<"1", "}">>
FragNum == <<" ", "1">>
JsonFrags == {FragOpen, FragClose, FragNum}
\* the text fragments a stream may deliver
TextFrags == {<<>>, <<"a">>, <<"b">>}
\* the (id, name) pairs a tool-use content_block_start may carry
ToolStarts == {[id |-> "t2", name |-> "alpha"], [id |-> "t1", name |-> "beta"]}
\* chunk types process_query has no branch for
OtherChunks == {"message_start", "message_stop"}
\* the payloads call_tool may return as result.content
Payloads == {"r1", "r2"}
\* the lines input() may return
Lines == { <<"h", "i">>,
           <<" ", "Q", "u", "i", "t", " ">>,
           <<"q", "u", "i", "t">>,
           <<"q", "u", "i", "t", "s", " ">> }
\* the tools the connected server reports (response.tools of list_tools)
ServerTools ==
    << [name |-> "alpha", description |-> "first", inputSchema |-> "schemaA"],
       [name |-> "beta", description |-> "second", inputSchema |-> "schemaB"] >>
\* the extension of the server script path given to main
ScriptExts == {".py", ".js", ".txt"}

(***************************************************************************)
(* str.strip and str.lower on the characters of Lines.                     *)
(***************************************************************************)
RECURSIVE LStrip(_)
LStrip(s) == IF s # <<>> /\ Head(s) = " " THEN LStrip(Tail(s)) ELSE s

RECURSIVE RStrip(_)
RStrip(s) ==
    IF s # <<>> /\ s[Len(s)] = " " THEN RStrip(SubSeq(s, 1, Len(s) - 1)) ELSE s

Strip(s) == RStrip(LStrip(s))

LowerChar(c) ==
    CASE c = "Q" -> "q" [] c = "U" -> "u" [] c = "I" -> "i" [] c = "T" -> "t"
      [] c = "H" -> "h" [] c = "S" -> "s" [] OTHER -> c

Lower(s) == [i \in 1..Len(s) |-> LowerChar(s[i])]

QuitWord == <<"q", "u", "i", "t">>

(***************************************************************************)
(* State.                                                                  *)
(***************************************************************************)
VARIABLES
    pc,                 \* where main / chat_loop / process_query stands
    exit_stack,         \* self.exit_stack: the contexts entered, in order
    released,           \* contexts closed so far, in the order they were closed
    query,              \* the stripped line read: process_query's argument
    messages,           \* the message log of the current call
    available_tools,    \* the descriptors sent to the model
    text_parts,         \* text fragments received
    tool_calls,         \* tool calls materialized by the decoder
    current_tool_call,  \* the open tool-call slot, or NoCall
    tool_results,       \* results collected by the dispatch loop
    \* what the environment saw and delivered (observation only):
    n,                  \* events delivered by the stream being consumed
    textIn,             \* text fragments delivered by the first stream, in order
    blocks,             \* tool-use blocks started in the first stream, in order
    requests,           \* messages.create calls of the current query
    calls,              \* call_tool invocations of the current query
    returned,           \* payloads call_tool returned in the current query
    inflight,           \* call_tool invocations not yet completed
    printed,            \* what the current query printed, in order
    outcome             \* how the current query stands

vars == <<pc, exit_stack, released, query, messages, available_tools, text_parts,
          tool_calls, current_tool_call, tool_results, n, textIn, blocks,
          requests, calls, returned, inflight, printed, outcome>>

\* process_query's locals and the record of the query
queryVars == <<query, messages, available_tools, text_parts, tool_calls,
               current_tool_call, tool_results, n, textIn, blocks, requests,
               calls, returned, inflight, printed, outcome>>
resVars == <<exit_stack, released>>
\* the locals of process_query and the record of the stream it consumes
callVars == <<query, messages, available_tools, text_parts, tool_calls,
              current_tool_call, tool_results, n, textIn, blocks>>

\* current_tool_call = None
NoCall == [type |-> "none", id |-> "", name |-> "", input |-> <<>>]

\* the locals of a process_query call that has ended are gone
DropLocals ==
    /\ query' = <<>>
    /\ messages' = <<>>
    /\ available_tools' = <<>>
    /\ text_parts' = <<>>
    /\ tool_calls' = <<>>
    /\ current_tool_call' = NoCall
    /\ tool_results' = <<>>
    /\ n' = 0
    /\ textIn' = <<>>
    /\ blocks' = <<>>

\* the state of a process_query call that has not run a line yet
FreshQuery(q, msgs, out, what) ==
    /\ query' = q
    /\ messages' = msgs
    /\ available_tools' = <<>>
    /\ text_parts' = <<>>
    /\ tool_calls' = <<>>
    /\ current_tool_call' = NoCall
    /\ tool_results' = <<>>
    /\ n' = 0
    /\ textIn' = <<>>
    /\ blocks' = <<>>
    /\ requests' = <<>>
    /\ calls' = <<>>
    /\ returned' = <<>>
    /\ inflight' = 0
    /\ printed' = what
    /\ outcome' = out

Init ==
    /\ pc = "connect"
    /\ exit_stack = <<>>
    /\ released = <<>>
    /\ query = <<>>
    /\ messages = <<>>
    /\ available_tools = <<>>
    /\ text_parts = <<>>
    /\ tool_calls = <<>>
    /\ current_tool_call = NoCall
    /\ tool_results = <<>>
    /\ n = 0
    /\ textIn = <<>>
    /\ blocks = <<>>
    /\ requests = <<>>
    /\ calls = <<>>
    /\ returned = <<>>
    /\ inflight = 0
    /\ printed = <<>>
    /\ outcome = "none"

(***************************************************************************)
(* main, connect_to_server, cleanup.                                       *)
(***************************************************************************)
\* the contexts connect_to_server has entered when it stops at a stage
EnteredAt(stage) ==
    CASE stage = "path" -> <<>>
      [] stage = "stdio_client" -> <<>>
      [] stage = "ClientSession" -> <<"stdio">>
      [] OTHER -> <<"stdio", "session">>

\* connect_to_server raises: at the path check (ValueError), entering one of
\* the two contexts, in initialize or in its list_tools; main's finally runs
ConnectFails ==
    /\ pc = "connect"
    /\ \E ext \in ScriptExts :
       \E stage \in {"path", "stdio_client", "ClientSession", "initialize",
                     "list_tools"} :
          /\ (stage = "path") <=> (ext \notin {".py", ".js"})
          /\ exit_stack' = EnteredAt(stage)
    /\ pc' = "cleanup"
    /\ outcome' = "connect_failed"
    /\ UNCHANGED <<released, query, messages, available_tools, text_parts,
                   tool_calls, current_tool_call, tool_results, n, textIn,
                   blocks, requests, calls, returned, inflight, printed>>

\* connect_to_server returns; main calls chat_loop
ConnectOk ==
    /\ pc = "connect"
    /\ \E ext \in ScriptExts : ext \in {".py", ".js"}
    /\ exit_stack' = EnteredAt("connected")
    /\ pc' = "input"
    /\ UNCHANGED <<released, queryVars>>

RECURSIVE Reverse(_)
Reverse(s) == IF s = <<>> THEN <<>> ELSE Append(Reverse(Tail(s)), Head(s))

\* (mutant) cleanup returns without closing the exit stack
CleanupLeaks ==
    /\ pc = "cleanup"
    /\ pc' = "exited"
    /\ UNCHANGED <<resVars, queryVars>>

\* cleanup: exit_stack.aclose() closes the entered contexts, last first
Cleanup ==
    /\ pc = "cleanup"
    /\ released' = released \o Reverse(exit_stack)
    /\ exit_stack' = <<>>
    /\ pc' = "exited"
    /\ UNCHANGED queryVars

(***************************************************************************)
(* chat_loop.                                                              *)
(***************************************************************************)
\* (mutant) no handler in the loop: the error ends chat_loop
RaiseOutOfLoop(what) ==
    /\ printed' = Append(printed, [kind |-> "error", text |-> what])
    /\ outcome' = "error"
    /\ pc' = "cleanup"
    /\ DropLocals

\* the exception handler of chat_loop: print the error, go round the loop
Raise(what) ==
    /\ printed' = Append(printed, [kind |-> "error", text |-> what])
    /\ outcome' = "error"
    /\ pc' = "input"
    /\ DropLocals

\* process_query returns to chat_loop, which goes round the loop
Return ==
    /\ outcome' = "returned"
    /\ pc' = "input"
    /\ DropLocals

\* the first message of the log process_query builds
FirstMessages(q) == << [role |-> "user", content |-> q] >>

\* input() returns a line: break on quit, else enter process_query
ReadLine ==
    /\ pc = "input"
    /\ \E line \in Lines :
        LET q == Strip(line) IN
        IF Lower(q) = QuitWord
        THEN /\ pc' = "cleanup"
             /\ FreshQuery(q, <<>>, "quit", <<>>)
        ELSE /\ pc' = "list_tools"
             /\ FreshQuery(q, FirstMessages(q), "running", <<>>)
    /\ UNCHANGED resVars

\* (mutant) the read is outside the try: its error ends chat_loop
InputFailsUncaught ==
    /\ pc = "input"
    /\ pc' = "cleanup"
    /\ FreshQuery(<<>>, <<>>, "error", << [kind |-> "error", text |-> "input"] >>)
    /\ UNCHANGED resVars

\* input() raises an Exception (EOFError at end of input); handled in the loop
InputFails ==
    /\ pc = "input"
    /\ pc' = "input"
    /\ FreshQuery(<<>>, <<>>, "error", << [kind |-> "error", text |-> "input"] >>)
    /\ UNCHANGED resVars

LoopPcs == {"input", "list_tools", "create1", "stream1", "dispatch",
            "await_tool", "create2", "stream2"}

\* KeyboardInterrupt / CancelledError: not an Exception, leaves chat_loop
Interrupt ==
    /\ pc \in LoopPcs
    /\ pc' = "cleanup"
    /\ FreshQuery(<<>>, <<>>, "interrupted", <<>>)
    /\ UNCHANGED resVars

(***************************************************************************)
(* process_query: the catalog and the first request.                       *)
(***************************************************************************)
\* one tool of the server as the descriptor sent to the model
Descriptor(tool) ==
    [name |-> tool.name, description |-> tool.description,
     input_schema |-> tool.inputSchema]

Descriptors(tools) == [i \in 1..Len(tools) |-> Descriptor(tools[i])]

\* session.list_tools() returns
ListToolsOk ==
    /\ pc = "list_tools"
    /\ available_tools' = Descriptors(ServerTools)
    /\ pc' = "create1"
    /\ UNCHANGED <<resVars, query, messages, text_parts, tool_calls,
                   current_tool_call, tool_results, n, textIn, blocks, requests,
                   calls, returned, inflight, printed, outcome>>

\* (mutant) a failed list_tools is replaced by an empty catalog
ListToolsFailsEmptyCatalog ==
    /\ pc = "list_tools"
    /\ available_tools' = <<>>
    /\ pc' = "create1"
    /\ UNCHANGED <<resVars, query, messages, text_parts, tool_calls,
                   current_tool_call, tool_results, n, textIn, blocks, requests,
                   calls, returned, inflight, printed, outcome>>

\* session.list_tools() raises
ListToolsFails ==
    /\ pc = "list_tools"
    /\ Raise("list_tools")
    /\ UNCHANGED <<resVars, requests, calls, returned, inflight>>

\* the arguments of a messages.create call
Request(msgs, tools) == [messages |-> msgs, tools |-> tools, stream |-> TRUE]

\* messages.create returns the response stream
Create1Ok ==
    /\ pc = "create1"
    /\ requests' = Append(requests, Request(messages, available_tools))
    /\ pc' = "stream1"
    /\ UNCHANGED <<resVars, query, messages, available_tools, text_parts,
                   tool_calls, current_tool_call, tool_results, n, textIn,
                   blocks, calls, returned, inflight, printed, outcome>>

\* messages.create raises
Create1Fails ==
    /\ pc = "create1"
    /\ requests' = Append(requests, Request(messages, available_tools))
    /\ Raise("create")
    /\ UNCHANGED <<resVars, calls, returned, inflight>>

(***************************************************************************)
(* process_query: decoding the first stream.  Each action consumes one     *)
(* chunk.  textIn and blocks record what the stream delivered: the text    *)
(* fragments in arrival order, and per tool-use block its start event, its *)
(* fragments in arrival order and whether a content_block_stop closed it.  *)
(***************************************************************************)
\* the stream has a tool-use block that was started and not stopped
HasOpenBlock == blocks # <<>> /\ ~blocks[Len(blocks)].closed

\* current_tool_call = {...} on a tool_use content_block_start
OpenToolCall(start) ==
    [type |-> "tool_use", id |-> start.id, name |-> start.name, input |-> <<>>]

\* (mutant) the fragment is put in front of the earlier ones
AppendTextInFront(parts, f) == <<f>> \o parts

\* text_parts.append(text_part)
AppendText(parts, f) == Append(parts, f)

\* (mutant) a newline-like delimiter is put between the fragments
AppendJsonDelimited(call, f) ==
    [call EXCEPT !.input = IF @ = <<>> THEN f ELSE @ \o <<" ">> \o f]

\* current_tool_call["input"] += delta.partial_json
AppendJson(call, f) == [call EXCEPT !.input = @ \o f]

\* the slot with its input replaced by the parsed value
Materialize(call) == [call EXCEPT !.input = JsonLoads(call.input).val]

\* truth value of current_tool_call (None is false, a non-empty dict is true)
SlotOpen(call) == call.type # "none"

\* (mutant) a decode error aborts the turn: what was decoded before is lost
ClosedToolCallsAbort(call, tcs) ==
    IF JsonLoads(call.input).ok THEN Append(tcs, Materialize(call)) ELSE <<>>

\* tool_calls after a content_block_stop closed the slot
ClosedToolCalls(call, tcs) ==
    IF JsonLoads(call.input).ok THEN Append(tcs, Materialize(call)) ELSE tcs

\* (mutant) a start that finds a slot open closes that slot first, as a
\* content_block_stop would
ToolUseStartClosesOpen ==
    /\ pc = "stream1" /\ n < MaxStream
    /\ \E start \in ToolStarts :
        /\ current_tool_call' = OpenToolCall(start)
        /\ blocks' = Append(blocks, [id |-> start.id, name |-> start.name,
                                     frags |-> <<>>, closed |-> FALSE])
    /\ tool_calls' = IF SlotOpen(current_tool_call)
                     THEN ClosedToolCalls(current_tool_call, tool_calls)
                     ELSE tool_calls
    /\ n' = n + 1
    /\ UNCHANGED <<resVars, pc, query, messages, available_tools, text_parts,
                   tool_results, textIn, requests, calls, returned,
                   inflight, printed, outcome>>

\* content_block_start of a tool_use block
ToolUseStart ==
    /\ pc = "stream1" /\ n < MaxStream
    /\ \E start \in ToolStarts :
        /\ current_tool_call' = OpenToolCall(start)
        /\ blocks' = Append(blocks, [id |-> start.id, name |-> start.name,
                                     frags |-> <<>>, closed |-> FALSE])
    /\ n' = n + 1
    /\ UNCHANGED <<resVars, pc, query, messages, available_tools, text_parts,
                   tool_calls, tool_results, textIn, requests, calls, returned,
                   inflight, printed, outcome>>

\* content_block_start of a text block: nothing to do
TextStart ==
    /\ pc = "stream1" /\ n < MaxStream
    /\ n' = n + 1
    /\ UNCHANGED <<resVars, pc, query, messages, available_tools, text_parts,
                   tool_calls, current_tool_call, tool_results, textIn, blocks,
                   requests, calls, returned, inflight, printed, outcome>>

\* (mutant) the fragment is kept and not printed as it arrives
TextDeltaBuffered ==
    /\ pc = "stream1" /\ n < MaxStream
    /\ \E f \in TextFrags :
        /\ text_parts' = AppendText(text_parts, f)
        /\ textIn' = Append(textIn, f)
    /\ n' = n + 1
    /\ UNCHANGED <<resVars, pc, query, messages, available_tools, tool_calls,
                   current_tool_call, tool_results, blocks, requests, calls,
                   returned, inflight, printed, outcome>>

\* content_block_delta with a text_delta: print it, keep it
TextDelta ==
    /\ pc = "stream1" /\ n < MaxStream
    /\ \E f \in TextFrags :
        /\ printed' = Append(printed, [kind |-> "text", text |-> f])
        /\ text_parts' = AppendText(text_parts, f)
        /\ textIn' = Append(textIn, f)
    /\ n' = n + 1
    /\ UNCHANGED <<resVars, pc, query, messages, available_tools, tool_calls,
                   current_tool_call, tool_results, blocks, requests, calls,
                   returned, inflight, outcome>>

\* content_block_delta with an input_json_delta
JsonDelta ==
    /\ pc = "stream1" /\ n < MaxStream
    /\ \E f \in JsonFrags :
        /\ current_tool_call' =
              IF SlotOpen(current_tool_call)
              THEN AppendJson(current_tool_call, f)
              ELSE current_tool_call
        /\ blocks' =
              IF HasOpenBlock
              THEN [blocks EXCEPT ![Len(blocks)].frags = Append(@, f)]
              ELSE blocks
    /\ n' = n + 1
    /\ UNCHANGED <<resVars, pc, query, messages, available_tools, text_parts,
                   tool_calls, tool_results, textIn, requests, calls, returned,
                   inflight, printed, outcome>>

\* content_block_stop
BlockStop ==
    /\ pc = "stream1" /\ n < MaxStream
    /\ IF SlotOpen(current_tool_call)
       THEN /\ tool_calls' = ClosedToolCalls(current_tool_call, tool_calls)
            /\ printed' =
                  IF JsonLoads(current_tool_call.input).ok
                  THEN printed
                  ELSE Append(printed, [kind |-> "decode_error",
                                        text |-> current_tool_call.input])
            /\ current_tool_call' = NoCall
       ELSE UNCHANGED <<tool_calls, printed, current_tool_call>>
    /\ blocks' =
          IF HasOpenBlock
          THEN [blocks EXCEPT ![Len(blocks)].closed = TRUE]
          ELSE blocks
    /\ n' = n + 1
    /\ UNCHANGED <<resVars, pc, query, messages, available_tools, text_parts,
                   tool_results, textIn, requests, calls, returned, inflight,
                   outcome>>

\* a chunk of any other type
OtherChunk ==
    /\ pc = "stream1" /\ n < MaxStream
    /\ \E t \in OtherChunks : TRUE
    /\ n' = n + 1
    /\ UNCHANGED <<resVars, pc, query, messages, available_tools, text_parts,
                   tool_calls, current_tool_call, tool_results, textIn, blocks,
                   requests, calls, returned, inflight, printed, outcome>>

\* iterating the stream raises (connection lost, malformed event)
Stream1Fails ==
    /\ pc = "stream1"
    /\ Raise("stream")
    /\ UNCHANGED <<resVars, requests, calls, returned, inflight>>

(***************************************************************************)
(* process_query: the assistant message and the branch on tool calls.      *)
(***************************************************************************)
\* assistant_message_content after the stream
AssistantContent(parts, tcs) ==
    (IF parts # <<>> THEN << [type |-> "text", text |-> Flatten(parts)] >>
     ELSE <<>>) \o tcs

\* (mutant) the end of the stream closes the slot that is still open, as a
\* content_block_stop would
Stream1EndsClosesOpen ==
    /\ pc = "stream1"
    /\ LET tcs == IF SlotOpen(current_tool_call)
                  THEN ClosedToolCalls(current_tool_call, tool_calls)
                  ELSE tool_calls
           content == AssistantContent(text_parts, tcs) IN
       IF content = <<>>
       THEN Return
       ELSE /\ messages' = Append(messages, [role |-> "assistant",
                                             content |-> content])
            /\ tool_calls' = tcs
            /\ pc' = "dispatch"
            /\ textIn' = <<>>
            /\ blocks' = <<>>
            /\ UNCHANGED <<query, available_tools, text_parts,
                           current_tool_call, tool_results, n, outcome>>
    /\ UNCHANGED <<resVars, requests, calls, returned, inflight, printed>>

\* the stream is exhausted: the for loop ends, and the lines up to the append
\* of the assistant message run; the exhausted stream is dropped
Stream1Ends ==
    /\ pc = "stream1"
    /\ LET content == AssistantContent(text_parts, tool_calls) IN
       IF content = <<>>
       THEN Return
       ELSE /\ messages' = Append(messages, [role |-> "assistant",
                                             content |-> content])
            /\ pc' = "dispatch"
            /\ textIn' = <<>>
            /\ blocks' = <<>>
            /\ UNCHANGED <<query, available_tools, text_parts, tool_calls,
                           current_tool_call, tool_results, n, outcome>>
    /\ UNCHANGED <<resVars, requests, calls, returned, inflight, printed>>

\* (mutant) the follow-up request is made whether or not there are tool calls
NoToolCallsResend ==
    /\ pc = "dispatch"
    /\ tool_calls = <<>>
    /\ pc' = "create2"
    /\ UNCHANGED <<resVars, queryVars>>

\* if tool_calls: false, process_query is done
NoToolCalls ==
    /\ pc = "dispatch"
    /\ tool_calls = <<>>
    /\ Return
    /\ UNCHANGED <<resVars, requests, calls, returned, inflight, printed>>

(***************************************************************************)
(* process_query: the dispatch loop.  idx-th tool call = the one after the *)
(* results collected so far.                                               *)
(***************************************************************************)
\* the tool call the loop stands at
NextToolCall == tool_calls[Len(tool_results) + 1]

\* the block a result is packaged into
ToolResult(call, payload) ==
    [type |-> "tool_result", tool_use_id |-> call.id, content |-> payload]

\* (mutant) the call is sent and not awaited before the loop goes on
CallToolBeginNoWait ==
    /\ pc = "dispatch"
    /\ tool_calls # <<>>
    /\ calls' = Append(calls, [name |-> tool_calls[1].name,
                               args |-> tool_calls[1].input])
    /\ inflight' = inflight + 1
    /\ UNCHANGED <<resVars, pc, callVars, requests, returned, printed, outcome>>

\* print the call and send session.call_tool(tool_name, tool_args)
CallToolBegin ==
    /\ pc = "dispatch"
    /\ tool_calls # <<>>
    /\ printed' = Append(printed, [kind |-> "calling",
                                   text |-> NextToolCall.name])
    /\ calls' = Append(calls, [name |-> NextToolCall.name,
                               args |-> NextToolCall.input])
    /\ inflight' = inflight + 1
    /\ pc' = "await_tool"
    /\ UNCHANGED <<resVars, query, messages, available_tools, text_parts,
                   tool_calls, current_tool_call, tool_results, n, textIn,
                   blocks, requests, returned, outcome>>

\* (mutant) the results are listed last first
WithResultsReversed(msgs, results) ==
    Append(msgs, [role |-> "user", content |-> Reverse(results)])

\* (mutant) the results message takes the place of the last message of the
\* log
WithResultsOverwriting(msgs, results) ==
    [msgs EXCEPT ![Len(msgs)] = [role |-> "user", content |-> results]]

\* the messages after the loop: one user message holding all the results
WithResults(msgs, results) ==
    Append(msgs, [role |-> "user", content |-> results])

\* call_tool returns: collect the result; after the last, append the results
CallToolReturns ==
    /\ pc = "await_tool"
    /\ \E payload \in Payloads :
        LET results == Append(tool_results, ToolResult(NextToolCall, payload)) IN
        /\ returned' = Append(returned, payload)
        /\ tool_results' = results
        /\ IF Len(results) = Len(tool_calls)
           THEN /\ messages' = WithResults(messages, results)
                /\ pc' = "create2"
           ELSE /\ UNCHANGED messages
                /\ pc' = "dispatch"
    /\ inflight' = inflight - 1
    /\ UNCHANGED <<resVars, query, available_tools, text_parts, tool_calls,
                   current_tool_call, n, textIn, blocks, requests, calls,
                   printed, outcome>>

\* (mutant) the failure is caught in the loop and the turn goes on without
\* the result
CallToolFailsSwallowed ==
    /\ pc = "await_tool"
    /\ inflight' = inflight - 1
    /\ printed' = Append(printed, [kind |-> "error", text |-> "call_tool"])
    /\ pc' = "create2"
    /\ UNCHANGED <<resVars, callVars, requests, calls, returned, outcome>>

\* (mutant) the failure becomes the result of the call and the loop goes on
\* with the next tool call
CallToolFailsAsResult ==
    /\ pc = "await_tool"
    /\ LET results == Append(tool_results, ToolResult(NextToolCall, "error")) IN
        /\ tool_results' = results
        /\ IF Len(results) = Len(tool_calls)
           THEN /\ messages' = WithResults(messages, results)
                /\ pc' = "create2"
           ELSE /\ UNCHANGED messages
                /\ pc' = "dispatch"
    /\ inflight' = inflight - 1
    /\ printed' = Append(printed, [kind |-> "error", text |-> "call_tool"])
    /\ UNCHANGED <<resVars, query, available_tools, text_parts, tool_calls,
                   current_tool_call, n, textIn, blocks, requests, calls,
                   returned, outcome>>

\* call_tool raises: the exception leaves process_query
CallToolFails ==
    /\ pc = "await_tool"
    /\ inflight' = inflight - 1
    /\ Raise("call_tool")
    /\ UNCHANGED <<resVars, requests, calls, returned>>

(***************************************************************************)
(* process_query: the follow-up request and its stream.                    *)
(***************************************************************************)
\* the second messages.create returns the stream; print()
Create2Ok ==
    /\ pc = "create2"
    /\ requests' = Append(requests, Request(messages, available_tools))
    /\ printed' = Append(printed, [kind |-> "newline", text |-> <<>>])
    /\ n' = 0
    /\ pc' = "stream2"
    /\ UNCHANGED <<resVars, query, messages, available_tools, text_parts,
                   tool_calls, current_tool_call, tool_results, textIn, blocks,
                   calls, returned, inflight, outcome>>

\* the second messages.create raises
Create2Fails ==
    /\ pc = "create2"
    /\ requests' = Append(requests, Request(messages, available_tools))
    /\ Raise("create")
    /\ UNCHANGED <<resVars, calls, returned, inflight>>

\* a text_delta of the follow-up stream: print it
Stream2Text ==
    /\ pc = "stream2" /\ n < MaxStream2
    /\ \E f \in TextFrags :
        printed' = Append(printed, [kind |-> "text", text |-> f])
    /\ n' = n + 1
    /\ UNCHANGED <<resVars, pc, query, messages, available_tools, text_parts,
                   tool_calls, current_tool_call, tool_results, textIn, blocks,
                   requests, calls, returned, inflight, outcome>>

\* (mutant) a tool-use block of the follow-up stream is dispatched
Stream2ToolUseDispatched ==
    /\ pc = "stream2" /\ n < MaxStream2
    /\ \E start \in ToolStarts :
        /\ blocks' = Append(blocks, [id |-> start.id, name |-> start.name,
                                     frags |-> <<>>, closed |-> FALSE])
        /\ calls' = Append(calls, [name |-> start.name, args |-> <<>>])
    /\ n' = n + 1
    /\ UNCHANGED <<resVars, pc, query, messages, available_tools, text_parts,
                   tool_calls, current_tool_call, tool_results, textIn,
                   requests, returned, inflight, printed, outcome>>

\* a tool_use content_block_start of the follow-up stream: no branch handles
\* it; blocks records that the stream carried it
Stream2ToolUse ==
    /\ pc = "stream2" /\ n < MaxStream2
    /\ \E start \in ToolStarts :
        blocks' = Append(blocks, [id |-> start.id, name |-> start.name,
                                  frags |-> <<>>, closed |-> FALSE])
    /\ n' = n + 1
    /\ UNCHANGED <<resVars, pc, query, messages, available_tools, text_parts,
                   tool_calls, current_tool_call, tool_results, textIn,
                   requests, calls, returned, inflight, printed, outcome>>

\* the other chunks of the follow-up stream that are no text_delta
Stream2Kinds == {"text_start", "input_json_delta", "content_block_stop"}
                \cup OtherChunks

\* any other chunk of the follow-up stream
Stream2Other ==
    /\ pc = "stream2" /\ n < MaxStream2
    /\ \E k \in Stream2Kinds : TRUE
    /\ n' = n + 1
    /\ UNCHANGED <<resVars, pc, query, messages, available_tools, text_parts,
                   tool_calls, current_tool_call, tool_results, textIn, blocks,
                   requests, calls, returned, inflight, printed, outcome>>

\* iterating the follow-up stream raises
Stream2Fails ==
    /\ pc = "stream2"
    /\ Raise("stream")
    /\ UNCHANGED <<resVars, requests, calls, returned, inflight>>

\* the follow-up stream is exhausted: print(), return
Stream2Ends ==
    /\ pc = "stream2"
    /\ printed' = Append(printed, [kind |-> "newline", text |-> <<>>])
    /\ Return
    /\ UNCHANGED <<resVars, requests, calls, returned, inflight>>

(***************************************************************************)
(* The program.                                                            *)
(***************************************************************************)
Next ==
    \/ ConnectFails
    \/ ConnectOk
    \/ Cleanup
    \/ ReadLine
    \/ InputFails
    \/ Interrupt
    \/ ListToolsOk
    \/ ListToolsFails
    \/ Create1Ok
    \/ Create1Fails
    \/ ToolUseStart
    \/ TextStart
    \/ TextDelta
    \/ JsonDelta
    \/ BlockStop
    \/ OtherChunk
    \/ Stream1Fails
    \/ Stream1Ends
    \/ NoToolCalls
    \/ CallToolBegin
    \/ CallToolReturns
    \/ CallToolFails
    \/ Create2Ok
    \/ Create2Fails
    \/ Stream2Text
    \/ Stream2ToolUse
    \/ Stream2Other
    \/ Stream2Fails
    \/ Stream2Ends

Spec == Init /\ [][Next]_vars

(***************************************************************************)
(* What a stream means, read off the record of what it delivered.          *)
(***************************************************************************)
RECURSIVE ArrivalConcat(_)
\* the fragments one after the other in the order they arrived, no delimiter
ArrivalConcat(frags) ==
    IF frags = <<>> THEN <<>>
    ELSE ArrivalConcat(SubSeq(frags, 1, Len(frags) - 1)) \o frags[Len(frags)]

\* a block's fragments form valid JSON
ValidJson(b) == JsonLoads(ArrivalConcat(b.frags)).ok

\* the ToolUse a block stands for
ToolUseOf(b) ==
    [type |-> "tool_use", id |-> b.id, name |-> b.name,
     input |-> JsonLoads(ArrivalConcat(b.frags)).val]

RECURSIVE ClosedValid(_)
\* the ToolUse of every block that was closed with valid JSON, in closing
\* order (a block is closed before the next starts, or never)
ClosedValid(bs) ==
    IF bs = <<>> THEN <<>>
    ELSE LET b == bs[Len(bs)]
             front == ClosedValid(SubSeq(bs, 1, Len(bs) - 1)) IN
         IF b.closed /\ ValidJson(b) THEN Append(front, ToolUseOf(b)) ELSE front

(***************************************************************************)
(* Readings of the steps of process_query.                                 *)
(***************************************************************************)
\* the step that ends the first loop without an error: the stream is
\* exhausted
StreamEndStep ==
    pc = "stream1" /\ pc' \in {"dispatch", "input"} /\ outcome' # "error"

\* the assistant message process_query has appended
AssistantMessage(content) == [role |-> "assistant", content |-> content]

(***************************************************************************)
(* C1.  A first stream with only text deltas (no tool-use block) decodes   *)
(* to the concatenation of its fragments in arrival order, and to no tool  *)
(* call: whenever the stream has delivered no tool-use block the joined    *)
(* text_parts are that concatenation, tool_calls is empty, and the         *)
(* assistant content built if the stream ends there is the one Text block  *)
(* with the concatenation and nothing else (nothing if no text delta came).*)
(***************************************************************************)
C1_TextOnlyStream ==
    (pc = "stream1" /\ blocks = <<>>) =>
        /\ Flatten(text_parts) = ArrivalConcat(textIn)
        /\ tool_calls = <<>>
        /\ AssistantContent(text_parts, tool_calls) =
              IF textIn = <<>> THEN <<>>
              ELSE << [type |-> "text", text |-> ArrivalConcat(textIn)] >>

\* a text-only stream of the fragments b then a has ended: the assistant
\* message holds the text ba and there is no tool call
C1_Witness ==
    /\ pc = "dispatch"
    /\ tool_calls = <<>>
    /\ text_parts = << <<"b">>, <<"a">> >>
    /\ messages[2] = AssistantMessage(
          << [type |-> "text", text |-> <<"b", "a">>] >>)

(***************************************************************************)
(* C2.  A first stream with exactly one tool-use block (start, deltas,     *)
(* stop) whose fragments concatenate to valid JSON decodes to exactly one  *)
(* ToolUse, with the id and name of the start event and the parsed value   *)
(* of the concatenation as input; it is the last block of the assistant    *)
(* content built if the stream ends there.                                 *)
(***************************************************************************)
OneValidBlock ==
    /\ pc = "stream1"
    /\ Len(blocks) = 1
    /\ blocks[1].closed
    /\ JsonLoads(ArrivalConcat(blocks[1].frags)).ok

C2_OneToolUse ==
    OneValidBlock =>
        /\ Len(tool_calls) = 1
        /\ tool_calls[1].type = "tool_use"
        /\ tool_calls[1].id = blocks[1].id
        /\ tool_calls[1].name = blocks[1].name
        /\ tool_calls[1].input = JsonLoads(ArrivalConcat(blocks[1].frags)).val
        /\ LET content == AssistantContent(text_parts, tool_calls) IN
           content[Len(content)] =
              [type |-> "tool_use", id |-> blocks[1].id,
               name |-> blocks[1].name,
               input |-> JsonLoads(ArrivalConcat(blocks[1].frags)).val]

\* one block t1/beta of three fragments, {"k":  then " 1"  then  1}, has been
\* decoded to the object k: 11
C2_Witness ==
    /\ pc = "stream1"
    /\ Len(blocks) = 1 /\ blocks[1].closed
    /\ blocks[1].frags = <<FragOpen, FragNum, FragClose>>
    /\ tool_calls = << [type |-> "tool_use", id |-> "t1", name |-> "beta",
                        input |-> <<"obj", << << <<"k">>, <<"num", 11>> >> >> >>] >>

(***************************************************************************)
(* Positions of process_query.                                             *)
(***************************************************************************)
\* the first stream has been consumed to its end and process_query goes on
AfterStream == {"dispatch", "await_tool", "create2", "stream2"}
\* the dispatch loop has run to its end
AfterDispatch == {"create2", "stream2"}

\* the call_tool invocation made for a ToolUse
CallOf(tu) == [name |-> tu.name, args |-> tu.input]

\* the last thing printed is of this kind
LastPrinted(kind) == printed # <<>> /\ printed[Len(printed)].kind = kind

(***************************************************************************)
(* C3.  A tool-use block of the first stream whose fragments are not valid *)
(* JSON is absent from the decoded tool calls and is never passed to       *)
(* call_tool; closing it raises nothing (the decoder reports it and goes   *)
(* on with the stream); and the turn continues: the blocks closed with     *)
(* valid JSON are all materialized, in order, the dispatch loop is entered *)
(* for them, it invokes call_tool for them in order, and when it has run   *)
(* to its end each of them has been invoked.                               *)
(***************************************************************************)
C3_InvalidJsonDropped ==
    /\ [](pc = "stream1" => tool_calls = ClosedValid(blocks))
    /\ [][(/\ pc = "stream1"
           /\ HasOpenBlock
           /\ ~ValidJson(blocks[Len(blocks)])
           /\ blocks' = [blocks EXCEPT ![Len(blocks)].closed = TRUE])
          => (/\ pc' = "stream1"
              /\ outcome' = outcome
              /\ tool_calls' = tool_calls
              /\ printed' = Append(printed,
                    [kind |-> "decode_error",
                     text |-> ArrivalConcat(blocks[Len(blocks)].frags)]))]_vars
    /\ [][(pc \in AfterStream /\ pc' \in AfterStream)
          => tool_calls' = tool_calls]_vars
    /\ [][(StreamEndStep /\ tool_calls # <<>>)
          => (pc' = "dispatch" /\ tool_calls' = tool_calls)]_vars
    /\ [][(pc = "dispatch" /\ tool_calls # <<>>)
          => pc' \in {"await_tool", "cleanup"}]_vars
    /\ [](pc \in AfterStream =>
            /\ Len(calls) <= Len(tool_calls)
            /\ \A i \in 1..Len(calls) : calls[i] = CallOf(tool_calls[i]))
    /\ [](pc \in AfterDispatch => Len(calls) = Len(tool_calls))

\* a stream with a block of invalid JSON and, after it, a block of valid JSON:
\* the decode error was printed and the valid block alone was dispatched
C3_Witness ==
    /\ pc = "create2"
    /\ \E i \in 1..Len(printed) : printed[i].kind = "decode_error"
    /\ Len(tool_calls) = 1
    /\ calls = <<CallOf(tool_calls[1])>>

(***************************************************************************)
(* C4.  A query whose first stream has no tool-use block never invokes     *)
(* call_tool and issues no second model request: such a stream decodes to  *)
(* no tool call; with no tool call process_query goes from the end of the  *)
(* stream straight to its return, issuing no request and no call; a        *)
(* second request exists only after a call_tool, and a query that returned *)
(* without a call_tool issued exactly one request.                         *)
(***************************************************************************)
C4_NoToolUseNoDispatch ==
    /\ []((pc = "stream1" /\ blocks = <<>>) =>
            (tool_calls = <<>> /\ calls = <<>> /\ Len(requests) = 1))
    /\ [][((StreamEndStep \/ pc = "dispatch") /\ tool_calls = <<>>) =>
            \/ pc' = "cleanup"
            \/ /\ requests' = requests
               /\ calls' = calls
               /\ \/ pc' = "dispatch" /\ pc = "stream1" /\ tool_calls' = <<>>
                  \/ pc' = "input" /\ outcome' = "returned"]_vars
    /\ [](Len(requests) > 1 => calls # <<>>)
    /\ []((outcome = "returned" /\ calls = <<>>) => Len(requests) = 1)

\* a query whose stream delivered text and produced no tool call is done
\* after one request
C4_Witness ==
    /\ pc = "input" /\ outcome = "returned"
    /\ printed = << [kind |-> "text", text |-> <<"a">>] >>
    /\ Len(requests) = 1 /\ calls = <<>>

(***************************************************************************)
(* C5.  When every dispatch succeeds, the user message appended after the  *)
(* assistant message holds one ToolResult per materialized ToolUse, in the *)
(* order the blocks were closed: the i-th result carries the id of the     *)
(* i-th ToolUse and the payload the i-th call_tool returned, and call_tool *)
(* was invoked once per ToolUse, with its name and input.                  *)
(***************************************************************************)
C5_ResultsInClosingOrder ==
    /\ [](pc = "stream1" => tool_calls = ClosedValid(blocks))
    /\ [][((pc \in AfterStream \/ StreamEndStep) /\ pc' \in AfterStream)
          => tool_calls' = tool_calls]_vars
    /\ [](pc \in AfterDispatch =>
            /\ Len(messages) = 3
            /\ messages[2].role = "assistant"
            /\ messages[3].role = "user"
            /\ Len(messages[3].content) = Len(tool_calls)
            /\ Len(calls) = Len(tool_calls)
            /\ Len(returned) = Len(tool_calls)
            /\ \A i \in 1..Len(tool_calls) :
                /\ messages[3].content[i] =
                      [type |-> "tool_result",
                       tool_use_id |-> tool_calls[i].id,
                       content |-> returned[i]]
                /\ calls[i] = CallOf(tool_calls[i]))

\* two blocks, t2/alpha closed before t1/beta, were dispatched and returned
\* different payloads; the results message stands
C5_Witness ==
    /\ pc = "create2"
    /\ Len(tool_calls) = 2
    /\ tool_calls[1].id = "t2" /\ tool_calls[2].id = "t1"
    /\ returned = <<"r2", "r1">>
    /\ Len(messages) = 3

(***************************************************************************)
(* C6.  If a call_tool of a query raises, the error is reported and no     *)
(* second model request is issued for the query; a second request exists   *)
(* only when every call_tool that was invoked has returned a result.       *)
(***************************************************************************)
C6_DispatchFailureAbandonsTurn ==
    /\ [][(pc = "await_tool" /\ returned' = returned /\ pc' # "cleanup") =>
            /\ pc' = "input"
            /\ outcome' = "error"
            /\ printed' = Append(printed, [kind |-> "error",
                                           text |-> "call_tool"])
            /\ requests' = requests
            /\ Len(requests) = 1]_vars
    /\ []((LastPrinted("error") /\ printed[Len(printed)].text = "call_tool") =>
            /\ pc = "input"
            /\ Len(requests) = 1
            /\ Len(returned) < Len(calls))
    /\ [](Len(requests) > 1 =>
            (calls # <<>> /\ Len(returned) = Len(calls) /\ inflight = 0))

\* the second of two call_tool invocations raised: reported, one request only
C6_Witness ==
    /\ pc = "input" /\ outcome = "error"
    /\ LastPrinted("error") /\ printed[Len(printed)].text = "call_tool"
    /\ Len(calls) = 2 /\ Len(returned) = 1
    /\ Len(requests) = 1

(***************************************************************************)
(* C7.  The steps of a query are sequential: no call_tool is invoked       *)
(* before the first stream has been consumed to its end, at most one       *)
(* call_tool is in flight, and the second model request is issued only     *)
(* after every invoked call_tool has returned.                             *)
(***************************************************************************)
C7_Sequential ==
    /\ inflight \in {0, 1}
    /\ (inflight = 1) <=> (pc = "await_tool")
    /\ pc \in {"list_tools", "create1", "stream1"} =>
          (calls = <<>> /\ returned = <<>>)
    /\ pc \in AfterStream => Len(calls) = Len(returned) + inflight
    /\ Len(requests) > 1 => (inflight = 0 /\ Len(returned) = Len(calls))

\* the second call_tool is in flight after the first has returned
C7_Witness ==
    /\ pc = "await_tool" /\ inflight = 1
    /\ Len(calls) = 2 /\ Len(returned) = 1
    /\ Len(requests) = 1

(***************************************************************************)
(* C8.  A query issues at most two model requests, and nothing is          *)
(* dispatched once the second has been issued: while the follow-up stream  *)
(* is consumed, whatever tool-use blocks it carries, call_tool is not      *)
(* invoked and no request is issued.                                       *)
(***************************************************************************)
C8_OneRoundTrip ==
    /\ [](Len(requests) <= 2)
    /\ [](pc = "stream2" => (Len(requests) = 2 /\ inflight = 0))
    /\ [][pc = "stream2" =>
            \/ pc' = "cleanup"
            \/ /\ pc' \in {"stream2", "input"}
               /\ calls' = calls
               /\ requests' = requests
               /\ inflight' = 0]_vars

\* the follow-up stream has delivered a tool-use block; the one call_tool of
\* the query is the one made before the second request
C8_Witness ==
    /\ pc = "stream2"
    /\ blocks # <<>>
    /\ Len(requests) = 2 /\ Len(calls) = 1

(***************************************************************************)
(* C9.  An error raised while a query is processed (list_tools, the model  *)
(* API, the stream, a dispatch) is caught and printed and the loop is back *)
(* at its prompt, where it accepts the next line; the loop does not end    *)
(* and the failed query is not run again: process_query is entered only    *)
(* for a line newly read.                                                  *)
(***************************************************************************)
C9_ErrorsCaughtLoopContinues ==
    /\ [](outcome = "error" => (pc = "input" /\ LastPrinted("error")))
    /\ [][(pc \in LoopPcs /\ pc # "input" /\ pc' = "input")
          => \/ outcome' = "returned" /\ printed' \in {printed,
                     Append(printed, [kind |-> "newline", text |-> <<>>])}
             \/ /\ outcome' = "error"
                /\ \E what \in {"list_tools", "create", "stream", "call_tool"} :
                      printed' = Append(printed, [kind |-> "error",
                                                  text |-> what])]_vars
    /\ [][pc = "input" =>
            \/ pc' \in {"input", "cleanup"}
            \/ /\ pc' = "list_tools"
               /\ \E line \in Lines : query' = Strip(line)
               /\ messages' = << [role |-> "user", content |-> query'] >>
               /\ requests' = <<>> /\ calls' = <<>>
               /\ outcome' = "running"]_vars
    /\ [](pc = "input" => ENABLED ReadLine)

\* a stream that failed after a request: reported, the loop is at its prompt
C9_Witness ==
    /\ pc = "input" /\ outcome = "error"
    /\ LastPrinted("error") /\ printed[Len(printed)].text = "stream"
    /\ Len(printed) > 1
    /\ Len(requests) = 1

(***************************************************************************)
(* C10.  If list_tools fails at the start of a query, the failure leaves   *)
(* process_query and no model request is issued for the query; every       *)
(* request that is issued carries the descriptors of the tools list_tools  *)
(* returned, never an empty catalog in their place.                        *)
(***************************************************************************)
CatalogOf(tools) ==
    /\ Len(tools) = Len(ServerTools)
    /\ \A i \in 1..Len(ServerTools) :
          tools[i] = [name |-> ServerTools[i].name,
                      description |-> ServerTools[i].description,
                      input_schema |-> ServerTools[i].inputSchema]

C10_ListToolsFailurePropagates ==
    /\ [](pc = "list_tools" => requests = <<>>)
    /\ [][pc = "list_tools" =>
            \/ pc' = "cleanup"
            \/ pc' = "create1" /\ CatalogOf(available_tools')
                               /\ requests' = <<>>
            \/ /\ pc' = "input" /\ outcome' = "error"
               /\ printed' = Append(printed, [kind |-> "error",
                                              text |-> "list_tools"])
               /\ requests' = <<>>]_vars
    /\ []((LastPrinted("error") /\ printed[Len(printed)].text = "list_tools")
            => requests = <<>>)
    /\ [](\A i \in 1..Len(requests) : CatalogOf(requests[i].tools))

\* list_tools failed: reported, and the query issued no request
C10_Witness ==
    /\ pc = "input" /\ outcome = "error"
    /\ printed = << [kind |-> "error", text |-> "list_tools"] >>
    /\ requests = <<>>

(***************************************************************************)
(* C11.  Every way out of main after the client exists goes through        *)
(* cleanup, once: connect_to_server either fails and main goes to cleanup  *)
(* without entering chat_loop, or succeeds with both contexts entered;     *)
(* the contexts stay entered while chat_loop runs; chat_loop is left only  *)
(* to cleanup; cleanup closes exactly the contexts that were entered, last *)
(* first, and empties the stack; nothing is released before it and nothing *)
(* runs after it.                                                          *)
(***************************************************************************)
C11_CleanupOnEveryExit ==
    /\ [](exit_stack \in {<<>>, <<"stdio">>, <<"stdio", "session">>})
    /\ [](pc # "exited" => released = <<>>)
    /\ [](pc \in LoopPcs => exit_stack = <<"stdio", "session">>)
    /\ [](outcome = "connect_failed" => pc \in {"cleanup", "exited"})
    /\ [][pc = "connect" =>
            \/ pc' = "input" /\ exit_stack' = <<"stdio", "session">>
            \/ pc' = "cleanup" /\ outcome' = "connect_failed"]_vars
    /\ [][(pc \in LoopPcs) =>
            (pc' \in LoopPcs \cup {"cleanup"} /\ exit_stack' = exit_stack)]_vars
    /\ [][pc = "cleanup" =>
            /\ pc' = "exited"
            /\ released' = Reverse(exit_stack)
            /\ exit_stack' = <<>>]_vars
    /\ [][pc # "exited"]_vars

\* the handshake failed after both contexts were entered: main has left, the
\* session was released and then the transport, and no query was ever read
C11_Witness ==
    /\ pc = "exited"
    /\ outcome = "connect_failed"
    /\ released = <<"session", "stdio">>
    /\ exit_stack = <<>>

(***************************************************************************)
(* Readings of the message log.                                            *)
(***************************************************************************)
\* the content blocks of the assistant messages of the log
AssistantBlocks(msgs) ==
    { msgs[i].content[j] :
        <<i, j>> \in { p \in (1..Len(msgs)) \X (1..3) :
                         /\ msgs[p[1]].role = "assistant"
                         /\ p[2] <= Len(msgs[p[1]].content) } }

(***************************************************************************)
(* C12.  The assistant message built from the first stream holds a Text    *)
(* block only when the accumulated text is non-empty: the log never holds  *)
(* a Text block whose text is the empty string, also when the stream       *)
(* delivered only empty text fragments.                                    *)
(***************************************************************************)
C12_NoZeroLengthText ==
    \A b \in AssistantBlocks(messages) : b.type = "text" => b.text # <<>>

(***************************************************************************)
(* C13.  Every materialized ToolUse has a mapping (a JSON object) as its   *)
(* input, in tool_calls, in the assistant message and as the arguments     *)
(* passed to call_tool, also when the fragments concatenate to valid JSON  *)
(* that is not an object.                                                  *)
(***************************************************************************)
C13_InputIsMapping ==
    /\ \A i \in 1..Len(tool_calls) : tool_calls[i].input[1] = "obj"
    /\ \A b \in AssistantBlocks(messages) :
          b.type = "tool_use" => b.input[1] = "obj"
    /\ \A i \in 1..Len(calls) : calls[i].args[1] = "obj"

(***************************************************************************)
(* C14.  A content_block_delta (text or partial JSON) or a                 *)
(* content_block_stop that arrives while no block is open is ignored: it   *)
(* raises nothing and leaves the accumulated text, the open slot and the   *)
(* materialized tool calls as they were.  No block is open before the      *)
(* first event of a stream; the event consumed there is a delta or a stop  *)
(* unless it starts a tool-use block (the record of blocks grows).         *)
(***************************************************************************)
C14_OrphanEventIgnored ==
    [][(pc = "stream1" /\ n = 0 /\ n' = 1 /\ blocks' = blocks) =>
          /\ pc' = "stream1"
          /\ outcome' = outcome
          /\ text_parts' = text_parts
          /\ current_tool_call' = current_tool_call
          /\ tool_calls' = tool_calls]_vars

(***************************************************************************)
(* C15.  The decoder has one slot: while the first stream is decoded the   *)
(* slot is empty or holds the tool-use block started last, with the        *)
(* fragments delivered since that start and none from before.  A tool-use  *)
(* start that finds the slot open replaces it: nothing is materialized or  *)
(* reported for the block it held, and that block is never closed by a     *)
(* later event.  The materialized tool calls are the blocks closed with    *)
(* valid JSON and no other, and call_tool is invoked for these only.       *)
(***************************************************************************)
C15_OneSlotEarlierDiscarded ==
    /\ [](pc = "stream1" =>
            /\ SlotOpen(current_tool_call) <=> HasOpenBlock
            /\ HasOpenBlock =>
                  current_tool_call =
                     [type |-> "tool_use",
                      id |-> blocks[Len(blocks)].id,
                      name |-> blocks[Len(blocks)].name,
                      input |-> ArrivalConcat(blocks[Len(blocks)].frags)]
            /\ tool_calls = ClosedValid(blocks))
    /\ [][(pc = "stream1" /\ HasOpenBlock /\ Len(blocks') = Len(blocks) + 1) =>
            /\ pc' = "stream1"
            /\ outcome' = outcome
            /\ current_tool_call'.input = <<>>
            /\ tool_calls' = tool_calls
            /\ printed' = printed]_vars
    /\ [][(pc = "stream1" /\ pc' = "stream1") =>
            \A i \in 1..(Len(blocks) - 1) :
                ~blocks[i].closed => ~blocks'[i].closed]_vars
    /\ [][(StreamEndStep /\ pc' = "dispatch") => tool_calls' = tool_calls]_vars
    /\ [][(pc \in AfterStream /\ pc' \in AfterStream)
          => tool_calls' = tool_calls]_vars
    /\ [](pc \in AfterStream =>
            /\ Len(calls) <= Len(tool_calls)
            /\ \A i \in 1..Len(calls) : calls[i] = CallOf(tool_calls[i]))

\* block t2/alpha was started and given the valid JSON " 1", then block
\* t1/beta was started before any stop, given " 1" and closed: the one
\* materialized tool call is t1/beta
C15_Witness ==
    /\ pc = "stream1"
    /\ Len(blocks) = 2
    /\ blocks[1] = [id |-> "t2", name |-> "alpha", frags |-> <<FragNum>>,
                    closed |-> FALSE]
    /\ blocks[2] = [id |-> "t1", name |-> "beta", frags |-> <<FragNum>>,
                    closed |-> TRUE]
    /\ Len(tool_calls) = 1
    /\ tool_calls[1].id = "t1"
    /\ current_tool_call = NoCall

(***************************************************************************)
(* C16.  The log of a query starts as the one user message of that query   *)
(* and only grows by appends: it is the user message alone up to the end   *)
(* of the first stream, then that and the assistant message built from the *)
(* decoded text and tool calls, then those two and the user message of the *)
(* tool results; the roles alternate.  The first request carries the user  *)
(* message of the query alone; the second carries the three messages and   *)
(* the descriptors the first carried.                                      *)
(***************************************************************************)
\* process_query is running
InQuery == pc \in LoopPcs \ {"input"}

\* the message that holds the tool results
ResultsMessage(results) == [role |-> "user", content |-> results]

\* the log process_query holds where it stands
LogAt(where) ==
    IF where \in {"list_tools", "create1", "stream1"}
    THEN FirstMessages(query)
    ELSE IF where \in {"dispatch", "await_tool"}
    THEN FirstMessages(query)
         \o << AssistantMessage(AssistantContent(text_parts, tool_calls)) >>
    ELSE FirstMessages(query)
         \o << AssistantMessage(AssistantContent(text_parts, tool_calls)),
               ResultsMessage(tool_results) >>

C16_LogAppendOnlyFresh ==
    /\ [](InQuery =>
            /\ messages = LogAt(pc)
            /\ \A i \in 1..Len(messages) :
                  messages[i].role = IF i % 2 = 1 THEN "user" ELSE "assistant"
            /\ requests # <<>> => requests[1].messages = FirstMessages(query)
            /\ Len(requests) = 2 => requests[2].messages = messages)
    /\ [](pc \in AfterDispatch =>
            /\ Len(tool_results) = Len(tool_calls)
            /\ \A i \in 1..Len(tool_results) :
                  tool_results[i].type = "tool_result")
    /\ [](Len(requests) <= 2)
    /\ [](requests # <<>> =>
            /\ Len(requests[1].messages) = 1
            /\ requests[1].messages[1].role = "user")
    /\ [](Len(requests) = 2 =>
            /\ Len(requests[2].messages) = 3
            /\ requests[2].messages[1] = requests[1].messages[1]
            /\ requests[2].messages[2].role = "assistant"
            /\ requests[2].messages[3].role = "user"
            /\ requests[2].tools = requests[1].tools)
    /\ [][(pc = "input" /\ pc' = "list_tools") =>
            (messages' = FirstMessages(query') /\ requests' = <<>>)]_vars
    /\ [][(InQuery /\ InQuery') =>
            /\ query' = query
            /\ \/ messages' = messages
               \/ /\ Len(messages') = Len(messages) + 1
                  /\ SubSeq(messages', 1, Len(messages)) = messages]_vars

\* the second request of the query "quits" has been issued with its three
\* messages: the query, the assistant's text and tool call, the one result
C16_Witness ==
    /\ pc = "stream2"
    /\ query = <<"q", "u", "i", "t", "s">>
    /\ Len(requests) = 2
    /\ requests[2].messages = messages
    /\ Len(messages) = 3
    /\ Len(messages[2].content) = 2
    /\ messages[2].content[1].type = "text"
    /\ messages[2].content[2].type = "tool_use"
    /\ Len(messages[3].content) = 1

(***************************************************************************)
(* C17.  Text is printed as it arrives: after every event of the first     *)
(* stream the text fragments printed so far are, one by one and in order,  *)
(* the text fragments the stream has delivered and the fragments           *)
(* accumulated in text_parts, so the text printed equals the accumulated   *)
(* text; this holds whatever else was printed in between (a decode error   *)
(* for a dropped tool call) and whatever the stream does next.             *)
(***************************************************************************)
RECURSIVE PrintedText(_)
\* the text fragments among what was printed, in order
PrintedText(out) ==
    IF out = <<>> THEN <<>>
    ELSE LET front == PrintedText(SubSeq(out, 1, Len(out) - 1))
             last == out[Len(out)] IN
         IF last.kind = "text" THEN Append(front, last.text) ELSE front

C17_TextEmittedAsReceived ==
    pc = "stream1" =>
        /\ PrintedText(printed) = textIn
        /\ PrintedText(printed) = text_parts
        /\ Flatten(PrintedText(printed)) = ArrivalConcat(textIn)
        /\ Flatten(PrintedText(printed)) = Flatten(text_parts)

\* the text a was printed, then the decode error of a dropped tool call, then
\* the text b, each when its event was consumed
C17_Witness ==
    /\ pc = "stream1"
    /\ printed = << [kind |-> "text", text |-> <<"a">>],
                    [kind |-> "decode_error", text |-> FragOpen],
                    [kind |-> "text", text |-> <<"b">>] >>
    /\ text_parts = << <<"a">>, <<"b">> >>
    /\ tool_calls = <<>>

(***************************************************************************)
(* C18.  A tool-use block that is still open when the first stream ends is *)
(* not materialized: the decoded tool calls are the blocks closed with     *)
(* valid JSON, so the open block is not among them whatever its fragments  *)
(* are; the end of the stream prints nothing (a decode error is printed    *)
(* for the blocks closed with invalid JSON and for no other) and builds    *)
(* the assistant message from the text and the closed valid blocks only;   *)
(* and call_tool is invoked for the decoded tool calls only.               *)
(***************************************************************************)
RECURSIVE DecodeErrors(_)
\* the buffers the decode errors printed so far have reported, in order
DecodeErrors(out) ==
    IF out = <<>> THEN <<>>
    ELSE LET front == DecodeErrors(SubSeq(out, 1, Len(out) - 1))
             last == out[Len(out)] IN
         IF last.kind = "decode_error" THEN Append(front, last.text) ELSE front

RECURSIVE ClosedInvalid(_)
\* the concatenated fragments of every block that was closed with invalid
\* JSON, in closing order
ClosedInvalid(bs) ==
    IF bs = <<>> THEN <<>>
    ELSE LET b == bs[Len(bs)]
             front == ClosedInvalid(SubSeq(bs, 1, Len(bs) - 1)) IN
         IF b.closed /\ ~ValidJson(b)
         THEN Append(front, ArrivalConcat(b.frags)) ELSE front

C18_OpenAtEndNotMaterialized ==
    /\ [](pc = "stream1" =>
            /\ tool_calls = ClosedValid(blocks)
            /\ DecodeErrors(printed) = ClosedInvalid(blocks))
    /\ [][(StreamEndStep /\ HasOpenBlock) =>
            /\ printed' = printed
            /\ calls = <<>> /\ calls' = <<>>
            /\ \/ /\ pc' = "input"
                  /\ outcome' = "returned"
                  /\ text_parts = <<>>
                  /\ ClosedValid(blocks) = <<>>
               \/ /\ pc' = "dispatch"
                  /\ tool_calls' = ClosedValid(blocks)
                  /\ messages' = Append(messages, AssistantMessage(
                        AssistantContent(text_parts, ClosedValid(blocks))))]_vars
    /\ [][(pc \in AfterStream /\ pc' \in AfterStream)
          => (tool_calls' = tool_calls
              /\ DecodeErrors(printed') = DecodeErrors(printed))]_vars
    /\ [](pc \in AfterStream =>
            /\ Len(calls) <= Len(tool_calls)
            /\ \A i \in 1..Len(calls) : calls[i] = CallOf(tool_calls[i]))

\* the stream ended with a block closed and decoded and a second block open
\* whose buffer " 1" is valid JSON: the one tool call was dispatched, the
\* assistant message holds it alone, and no decode error was printed
C18_Witness ==
    /\ pc = "create2"
    /\ SlotOpen(current_tool_call)
    /\ current_tool_call.input = FragNum
    /\ Len(tool_calls) = 1
    /\ tool_calls[1].id # current_tool_call.id
    /\ messages[2].content = tool_calls
    /\ Len(calls) = 1
    /\ DecodeErrors(printed) = <<>>

(***************************************************************************)
(* C19.  When a call_tool raises, it is the call for the tool call the     *)
(* loop stands at (the k-th, after k-1 results); the calls made are the    *)
(* first k tool calls in order; the step ends process_query with the       *)
(* error: no call is added, the calls made and the payloads returned stay  *)
(* as they are, the log holds no results message at that point and is      *)
(* dropped, and no request follows.  No call_tool is invoked until a new   *)
(* query is read, and a results message exists only when every tool call   *)
(* has returned.                                                           *)
(***************************************************************************)
C19_FailureStopsDispatch ==
    /\ [][(pc = "await_tool" /\ returned' = returned /\ pc' # "cleanup") =>
            /\ pc' = "input"
            /\ outcome' = "error"
            /\ Len(calls) = Len(tool_results) + 1
            /\ Len(calls) <= Len(tool_calls)
            /\ \A i \in 1..Len(calls) : calls[i] = CallOf(tool_calls[i])
            /\ Len(returned) = Len(tool_results)
            /\ calls' = calls
            /\ requests' = requests
            /\ messages = LogAt("await_tool")
            /\ messages' = <<>>]_vars
    /\ [][pc = "input" => calls' = <<>>]_vars
    /\ []((outcome = "error" /\ LastPrinted("error")
            /\ printed[Len(printed)].text = "call_tool") =>
            /\ pc = "input"
            /\ Len(calls) = Len(returned) + 1
            /\ Len(requests) = 1
            /\ messages = <<>>)
    /\ [](Len(messages) = 3 =>
            /\ pc \in AfterDispatch
            /\ Len(returned) = Len(tool_calls)
            /\ Len(calls) = Len(tool_calls))

\* the call for alpha returned r2 and the call for beta raised: both calls
\* stand as made, the one payload stands, and there is no log and no second
\* request
C19_Witness ==
    /\ pc = "input"
    /\ outcome = "error"
    /\ Len(calls) = 2
    /\ calls[1].name = "alpha" /\ calls[2].name = "beta"
    /\ returned = <<"r2">>
    /\ messages = <<>>
    /\ Len(requests) = 1

(***************************************************************************)
(* C20.  The loop of chat_loop ends only by the break taken on a line      *)
(* that, stripped and lower-cased, is quit: a line that is not is          *)
(* processed as a query and the loop goes on; no Exception-class error     *)
(* leaves the loop, each is printed and the loop is at its prompt again;   *)
(* a read that raises (end of input) is such an error and leaves the loop  *)
(* at its prompt, so a loop whose every read raises stays there.  The one  *)
(* other way out of chat_loop is an interrupt (KeyboardInterrupt,          *)
(* cancellation), which is not an Exception-class error and is not         *)
(* handled.                                                                *)
(***************************************************************************)
C20_LoopEndsOnlyOnQuit ==
    /\ [][(pc \in LoopPcs /\ pc' \notin LoopPcs) =>
            /\ pc' = "cleanup"
            /\ \/ /\ pc = "input"
                  /\ outcome' = "quit"
                  /\ Lower(query') = QuitWord
                  /\ \E line \in Lines : query' = Strip(line)
               \/ outcome' = "interrupted"]_vars
    /\ [](outcome = "quit" =>
            (pc \in {"cleanup", "exited"} /\ Lower(query) = QuitWord))
    /\ [](InQuery => Lower(query) # QuitWord)
    /\ [](outcome = "error" => (pc = "input" /\ LastPrinted("error")))
    /\ [][(pc \in LoopPcs /\ outcome' = "error") => pc' = "input"]_vars
    /\ [][(pc = "input" /\ pc' = "input") =>
            /\ outcome' = "error"
            /\ printed' = << [kind |-> "error", text |-> "input"] >>]_vars

\* a read raised after the connection was made: the error was printed, the
\* loop is at its prompt and nothing has been released
C20_Witness ==
    /\ pc = "input"
    /\ outcome = "error"
    /\ printed = << [kind |-> "error", text |-> "input"] >>
    /\ exit_stack = <<"stdio", "session">>
    /\ released = <<>>

=============================================================================
